---- MODULE Spec2Model ----
(***************************************************************************)
(* A model of slicedimage's Tile (src/slicedimage/_tile.py): one tile, its *)
(* lazy-materialization fields, the HashWrapper read session that a load   *)
(* opens around the format's reader_func, and the operations of the Tile   *)
(* class.  The reader_func (the decoder) is external code: it is modelled  *)
(* by the calls it may make on the wrapped stream (read, seek, close)      *)
(* followed by a return or a raise.                                        *)
(***************************************************************************)
EXTENDS Integers, Sequences, FiniteSets, TLC

VARIABLES
    tile_shape,                 \* Tile.tile_shape: None or Some(shape)
    sha256,                     \* Tile.sha256, the expected checksum
    tile_format,                \* Tile.tile_format
    source_fh_contextmanager,   \* Tile._source_fh_contextmanager
    numpy_array,                \* Tile._numpy_array
    actual_sha256,              \* Tile._actual_sha256
    pc,                         \* "idle", or "reading": inside reader_func of _load
    op,                         \* the Tile operation called last
    fh_pos,                     \* position of the source stream (HashWrapper.fh),
                                \* Closed once the stream is closed
    hasher,                     \* HashWrapper.hasher: None, or Some(bytes fed so far)
    hw,                         \* bytes of the stream the decoder has consumed
    result,                     \* how the last operation ended
    dst,                        \* what the last operation wrote to dst_fh
    declared_shape,             \* history: tile_shape given to the constructor
    attached,                   \* history: bytes of the source the tile's content
                                \* comes from (None after a direct assignment)
    coordinates,                \* Tile.coordinates
    indices,                    \* Tile.indices
    extras,                     \* Tile.extras
    handle,                     \* _UrlContextManager.handle of the attached source
    open,                       \* the buffers that are open (not yet closed)
    enters                      \* history: how often the attached source was entered

vars == <<tile_shape, sha256, tile_format, source_fh_contextmanager, numpy_array,
          actual_sha256, pc, op, fh_pos, hasher, hw, result, dst,
          declared_shape, attached, coordinates, indices, extras, handle, open,
          enters>>

(* What the constructor receives and no operation is meant to change. *)
meta == <<coordinates, indices, extras>>

(* The source's context manager and its stream. *)
backend == <<handle, open, enters>>

tile == <<tile_shape, sha256, tile_format, source_fh_contextmanager, numpy_array,
          actual_sha256>>

(* Bounds of the model. *)
MaxLen == 2     \* longest source stream, in bytes
MaxFed == 3     \* most bytes one read session feeds to its hasher
MaxEnters == 2  \* most times one attached source is entered

(* The code never looks at the value of a byte: sources differ by their    *)
(* length, and so do their digests.                                        *)
Byte == {1}

(* Python's None, and a present value. *)
None == <<>>
Some(x) == <<x>>
Val(o) == o[1]

Min(a, b) == IF a < b THEN a ELSE b
Max(a, b) == IF a > b THEN a ELSE b

(* The byte strings a source may hold. *)
Data == UNION {[1..n -> Byte] : n \in 1..MaxLen}

(* hashlib.sha256: update() appends to the message, hexdigest() is an      *)
(* injective function of the message (no collisions).  The digest of the   *)
(* message b1..bn is the number written 1 b1 .. bn in base |Byte|+1.       *)
RECURSIVE HexDigest(_)
HexDigest(msg) ==
    IF msg = <<>> THEN 1
    ELSE HexDigest(SubSeq(msg, 1, Len(msg) - 1)) * (Cardinality(Byte) + 1)
         + msg[Len(msg)]

(* tile_format.reader_func applied to the bytes it consumed: an array with *)
(* one pixel per byte.                                                     *)
Decode(bytes) == [pixels |-> bytes, shape |-> <<Len(bytes)>>]

Arrays == {Decode(d) : d \in Data}
Shapes == {<<n>> : n \in 1..MaxLen}
Formats == {"TIFF"}
NUMPY == "NUMPY"

(* numpy.save(dst_fh, array): a header giving the shape, then the pixels.  *)
NpySave(a) == IF a = None THEN <<0>> ELSE Val(a).shape \o Val(a).pixels

----------------------------------------------------------------------------
(* HashWrapper *)

(* HashWrapper.__init__: a fresh hasher. *)
NewHasher == Some(<<>>)

(* The whence argument of seek (io.SEEK_SET, io.SEEK_CUR, io.SEEK_END). *)
SEEK_SET == 0
SEEK_CUR == 1
SEEK_END == 2
Whence == {SEEK_SET, SEEK_CUR, SEEK_END}

(* The position of a closed stream: it has none, tell() raises. *)
Closed == -1

(* fh.seek(offset, whence) on the BytesIO holding data, at position pos: a *)
(* negative absolute offset raises and leaves the position, a relative     *)
(* seek before the start lands on the start.                               *)
FhSeek(data, pos, offset, whence) ==
    CASE whence = SEEK_SET -> IF offset < 0 THEN pos ELSE offset
      [] whence = SEEK_CUR -> Max(0, pos + offset)
      [] whence = SEEK_END -> Max(0, Len(data) + offset)

(* fh.read(n) at position pos of a stream holding data. *)
FhRead(data, pos, n) == SubSeq(data, pos + 1, Min(pos + n, Len(data)))

(* HashWrapper.read: the hasher after buf was returned by fh.read. *)
HashRead(h, buf) == IF h # None THEN Some(Val(h) \o buf) ELSE h

(* HashWrapper.seek: the hasher after seek(offset, whence). *)
HashSeek(h, offset) == IF offset # 0 THEN None ELSE h

(* HashWrapper.__exit__: the tile's _actual_sha256 after the session. *)
HashExit(actual, h) == IF h # None THEN Some(HexDigest(Val(h))) ELSE actual

----------------------------------------------------------------------------
(* _UrlContextManager: the source's context manager *)

(* __enter__, the n-th time: the response is put in a new buffer, kept in  *)
(* self.handle and returned.                                               *)
UrlEnter(n) == Some(n)

(* __exit__ forgetting to close the buffer. *)
UrlExitLeaks(opn, h) == opn

(* __exit__: the open buffers after self.handle.__exit__. *)
UrlExit(opn, h) == opn \ {Val(h)}

----------------------------------------------------------------------------
(* Tile *)

(* The setter without its assertion. *)
ShapeOkUnchecked(shape, a) == TRUE

(* numpy_array setter, lines 85-86: the assertion on the shape. *)
ShapeOk(shape, a) == shape = None \/ Val(shape) = a.shape

(* The checksum string '': no digest is empty (HexDigest is at least 1). *)
EmptyString == 0

(* validate, line 136: a checksum counts when it is truthy, that is        *)
(* neither None nor ''.                                                    *)
Present(c) == c # None /\ Val(c) # EmptyString

(* validate taking a missing actual checksum for a mismatch. *)
ChecksumFailsStrict(expected, actual) ==
    Present(expected) /\ expected # actual

(* validate, lines 136-138: whether the assertion fails. *)
ChecksumFails(expected, actual) ==
    Present(expected) /\ Present(actual) /\ expected # actual

(* copy, line 119: whether copy takes the branch that reads the source. *)
CopyReads(src) == src # None

(* What the caller of _load does once _load has returned, given the tile's *)
(* array and checksum after the load.  wrote: whether the dst_fh given to  *)
(* write() accepts what numpy.save writes (it raises otherwise).           *)
AfterLoad(o, arr, actual, wrote) ==
    /\ result' = IF o = "validate" /\ ChecksumFails(sha256, actual)
                 THEN "ChecksumMismatchError"
                 ELSE IF o = "write" /\ ~wrote THEN "IOError" ELSE "ok"
    /\ dst' = IF o = "write" /\ wrote THEN Some(NpySave(arr)) ELSE None

Init ==
    /\ tile_shape \in {None} \cup {Some(s) : s \in Shapes}
    /\ sha256 \in {None, Some(EmptyString)} \cup {Some(HexDigest(d)) : d \in Data}
    /\ tile_format = "None"
    /\ source_fh_contextmanager = None
    /\ numpy_array = None
    /\ actual_sha256 = None
    /\ pc = "idle"
    /\ op = "__init__"
    /\ fh_pos = 0
    /\ hasher = None
    /\ hw = 0
    /\ result = "ok"
    /\ dst = None
    /\ declared_shape = tile_shape
    /\ attached = None
    /\ coordinates = [x |-> <<0, 1>>, y |-> <<0, 1>>]
    /\ indices = [hyb |-> 0, ch |-> 1]
    /\ extras = [note |-> "k"]
    /\ handle = None
    /\ open = {}
    /\ enters = 0

(* set_source_fh_contextmanager without line 101: the array is kept. *)
SetSourceKeepsArray(data, fmt) ==
    /\ pc = "idle"
    /\ source_fh_contextmanager' = Some(data)
    /\ tile_format' = fmt
    /\ op' = "set_source_fh_contextmanager"
    /\ result' = "ok"
    /\ dst' = None
    /\ attached' = Some(data)
    /\ handle' = None
    /\ enters' = 0
    /\ UNCHANGED <<tile_shape, sha256, numpy_array, actual_sha256, pc, fh_pos,
                   hasher, hw, declared_shape, meta, open>>

(* Tile.set_source_fh_contextmanager(cm, tile_format), cm a context        *)
(* manager over a stream holding data.                                     *)
SetSource(data, fmt) ==
    /\ pc = "idle"
    /\ source_fh_contextmanager' = Some(data)
    /\ numpy_array' = None
    /\ tile_format' = fmt
    /\ op' = "set_source_fh_contextmanager"
    /\ result' = "ok"
    /\ dst' = None
    /\ attached' = Some(data)
    /\ handle' = None
    /\ enters' = 0
    /\ UNCHANGED <<tile_shape, sha256, actual_sha256, pc, fh_pos, hasher, hw,
                   declared_shape, meta, open>>

(* The numpy_array setter. *)
Assign(a) ==
    /\ pc = "idle"
    /\ op' = "numpy_array.setter"
    /\ dst' = None
    /\ IF ShapeOk(tile_shape, a)
       THEN /\ source_fh_contextmanager' = None
            /\ numpy_array' = Some(a)
            /\ tile_format' = NUMPY
            /\ tile_shape' = Some(a.shape)
            /\ result' = "ok"
            /\ attached' = None
       ELSE /\ result' = "ShapeMismatchError"
            /\ UNCHANGED <<source_fh_contextmanager, numpy_array, tile_format,
                           tile_shape, attached>>
    /\ UNCHANGED <<sha256, actual_sha256, pc, fh_pos, hasher, hw, declared_shape,
                   meta, backend>>

(* _load with nothing to load, but dropping the cached array. *)
LoadSkippedEvicts ==
    /\ numpy_array' = None
    /\ UNCHANGED <<tile_shape, sha256, tile_format, source_fh_contextmanager,
                   actual_sha256, pc, fh_pos, hasher, hw, backend>>

(* _load, line 68: there is no source, nothing is done. *)
LoadSkipped ==
    UNCHANGED <<tile, pc, fh_pos, hasher, hw, backend>>

(* Entering the source's context manager (the with statement, line 71 or   *)
(* 121): a new buffer is opened.                                           *)
Acquire ==
    /\ enters < MaxEnters
    /\ enters' = enters + 1
    /\ handle' = UrlEnter(enters + 1)
    /\ open' = open \cup {Val(UrlEnter(enters + 1))}

(* The whole with statement of copy: the buffer is opened, and closed on   *)
(* every way out of the block.                                             *)
AcquireRelease ==
    /\ enters < MaxEnters
    /\ enters' = enters + 1
    /\ handle' = UrlEnter(enters + 1)
    /\ open' = UrlExit(open \cup {Val(UrlEnter(enters + 1))}, UrlEnter(enters + 1))

(* A call of the numpy_array getter, write or validate, up to the point    *)
(* where _load hands the wrapped stream to reader_func.  acquired: whether *)
(* entering the source's context manager succeeds; wrote: whether write's  *)
(* dst_fh accepts the data.                                                *)
Call(o, acquired, wrote) ==
    /\ pc = "idle"
    /\ op' = o
    /\ IF source_fh_contextmanager = None
       THEN /\ AfterLoad(o, numpy_array, actual_sha256, wrote)
            /\ LoadSkipped
       ELSE IF numpy_array # None
       THEN \* line 69
            /\ result' = "InconsistentStateError"
            /\ dst' = None
            /\ UNCHANGED <<tile, pc, fh_pos, hasher, hw, backend>>
       ELSE IF ~acquired
       THEN /\ result' = "IOError"
            /\ dst' = None
            /\ UNCHANGED <<tile, pc, fh_pos, hasher, hw, backend>>
       ELSE /\ Acquire
            /\ pc' = "reading"
            /\ fh_pos' = 0
            /\ hasher' = NewHasher
            /\ hw' = 0
            /\ result' = "pending"
            /\ dst' = None
            /\ UNCHANGED tile
    /\ UNCHANGED <<declared_shape, attached, meta>>

(* reader_func calls wrapped_fh.read(n) on the open stream (on a closed    *)
(* one fh.read raises before the hasher is fed: nothing changes).          *)
DecRead(n) ==
    /\ pc = "reading"
    /\ fh_pos # Closed
    /\ LET data == Val(source_fh_contextmanager)
           buf == FhRead(data, fh_pos, n)
       IN /\ hasher # None => Len(Val(hasher)) + Len(buf) <= MaxFed
          /\ fh_pos' = fh_pos + Len(buf)
          /\ hasher' = HashRead(hasher, buf)
          /\ hw' = Max(hw, Min(fh_pos + Len(buf), Len(data)))
    /\ UNCHANGED <<tile, pc, op, result, dst, declared_shape, attached, meta,
                   backend>>

(* reader_func calls wrapped_fh.seek(offset, whence): the hasher is dealt  *)
(* with first, then fh.seek moves the stream, or raises on a closed one.   *)
DecSeek(offset, whence) ==
    /\ pc = "reading"
    /\ LET data == Val(source_fh_contextmanager)
           pos == IF fh_pos = Closed THEN Closed
                  ELSE FhSeek(data, fh_pos, offset, whence)
       IN /\ pos <= MaxLen
          /\ fh_pos' = pos
    /\ hasher' = HashSeek(hasher, offset)
    /\ UNCHANGED <<tile, pc, op, hw, result, dst, declared_shape, attached, meta,
                   backend>>

(* reader_func calls wrapped_fh.close(): the source's buffer is closed     *)
(* before the context manager exits.                                       *)
DecClose ==
    /\ pc = "reading"
    /\ fh_pos # Closed
    /\ fh_pos' = Closed
    /\ open' = open \ {Val(handle)}
    /\ UNCHANGED <<tile, pc, op, hasher, hw, result, dst, declared_shape,
                   attached, meta, handle, enters>>

(* The session's digest written over the expected checksum. *)
PublishOverExpected(h) ==
    /\ sha256' = HashExit(sha256, h)
    /\ UNCHANGED actual_sha256

(* HashWrapper.__exit__, lines 28-30, as the tile sees it. *)
Publish(h) ==
    /\ actual_sha256' = HashExit(actual_sha256, h)
    /\ UNCHANGED sha256

(* _load without line 76: tile_shape is not updated. *)
LoadCommitKeepsShape(arr) ==
    /\ numpy_array' = arr
    /\ source_fh_contextmanager' = None
    /\ tile_format' = NUMPY
    /\ UNCHANGED tile_shape

(* _load without line 74: the source is not cleared. *)
LoadCommitKeepsSource(arr) ==
    /\ numpy_array' = arr
    /\ tile_format' = NUMPY
    /\ tile_shape' = Some(Val(arr).shape)
    /\ UNCHANGED source_fh_contextmanager

(* _load, lines 73-76, arr being what reader_func returned. *)
LoadCommit(arr) ==
    /\ numpy_array' = arr
    /\ source_fh_contextmanager' = None
    /\ tile_format' = NUMPY
    /\ tile_shape' = Some(Val(arr).shape)

(* reader_func returns: both context managers exit, _load sets the fields, *)
(* and the caller of _load finishes.  wrote: as in AfterLoad.              *)
DecReturn(wrote) ==
    /\ pc = "reading"
    /\ LET data == Val(source_fh_contextmanager)
           arr == Some(Decode(SubSeq(data, 1, hw)))
       IN /\ LoadCommit(arr)
          /\ Publish(hasher)
          /\ AfterLoad(op, arr, HashExit(actual_sha256, hasher), wrote)
    /\ open' = UrlExit(open, handle)
    /\ pc' = "idle"
    /\ hasher' = None
    /\ fh_pos' = 0
    /\ hw' = 0
    /\ UNCHANGED <<op, declared_shape, attached, meta, handle, enters>>

(* A failed load that gives up its source. *)
LoadAbortedDropsSource ==
    /\ source_fh_contextmanager' = None
    /\ UNCHANGED <<tile_shape, tile_format, numpy_array>>

(* _load when reader_func raises at line 73: lines 73-76 assign nothing. *)
LoadAborted ==
    UNCHANGED <<tile_shape, tile_format, source_fh_contextmanager, numpy_array>>

(* reader_func raises: both context managers exit, the error propagates.   *)
DecRaise ==
    /\ pc = "reading"
    /\ LoadAborted
    /\ Publish(hasher)
    /\ open' = UrlExit(open, handle)
    /\ result' = "DecodeError"
    /\ pc' = "idle"
    /\ hasher' = None
    /\ fh_pos' = 0
    /\ hw' = 0
    /\ UNCHANGED <<op, dst, declared_shape, attached, meta, handle, enters>>

(* copy falling back to write() when the tile has no source. *)
CopyFallsBackToWrite ==
    /\ result' = "ok"
    /\ dst' = Some(NpySave(numpy_array))
    /\ UNCHANGED <<numpy_array, source_fh_contextmanager, tile_format>>

(* copy, lines 127-128: the tile has no source to copy from. *)
CopyRefused ==
    /\ result' = "UnsupportedOperationError"
    /\ dst' = None
    /\ UNCHANGED <<numpy_array, source_fh_contextmanager, tile_format>>

(* copy writing the array it decoded, as write() does. *)
CopyPayloadReencoded(data, arr) == NpySave(arr)

(* copy, line 124: what is written to dst_fh. *)
CopyPayload(data, arr) == data

(* Tile.copy(dst_fh).  how: what happens inside the with statement;        *)
(* consumed: how many bytes of BytesIO(data) reader_func decodes.          *)
Copy(how, consumed) ==
    /\ pc = "idle"
    /\ op' = "copy"
    /\ IF ~CopyReads(source_fh_contextmanager)
       THEN CopyRefused /\ UNCHANGED backend
       ELSE IF numpy_array # None
       THEN \* line 120
            /\ result' = "InconsistentStateError"
            /\ dst' = None
            /\ UNCHANGED <<numpy_array, source_fh_contextmanager, tile_format,
                           backend>>
       ELSE LET data == Val(source_fh_contextmanager)
                arr == Some(Decode(SubSeq(data, 1, Min(consumed, Len(data)))))
            IN CASE how = "source raises" ->
                      \* entering the context manager raises
                      /\ result' = "IOError"
                      /\ dst' = None
                      /\ UNCHANGED <<numpy_array, source_fh_contextmanager,
                                     tile_format, backend>>
                 [] how = "reader_func raises" ->
                      /\ AcquireRelease
                      /\ result' = "DecodeError"
                      /\ dst' = None
                      /\ UNCHANGED <<numpy_array, source_fh_contextmanager,
                                     tile_format>>
                 [] how = "dst_fh.write raises" ->
                      /\ AcquireRelease
                      /\ numpy_array' = arr
                      /\ result' = "IOError"
                      /\ dst' = None
                      /\ UNCHANGED <<source_fh_contextmanager, tile_format>>
                 [] how = "returns" ->
                      /\ AcquireRelease
                      /\ numpy_array' = arr
                      /\ dst' = Some(CopyPayload(data, arr))
                      /\ source_fh_contextmanager' = None
                      /\ tile_format' = NUMPY
                      /\ result' = "ok"
    /\ UNCHANGED <<tile_shape, sha256, actual_sha256, pc, fh_pos, hasher, hw,
                   declared_shape, attached, meta>>

CopyOutcomes == {"source raises", "reader_func raises", "dst_fh.write raises",
                 "returns"}
LoadCallers == {"numpy_array", "write", "validate"}

Next ==
    \/ \E d \in Data, f \in Formats : SetSource(d, f)
    \/ \E a \in Arrays : Assign(a)
    \/ \E o \in LoadCallers, acq \in BOOLEAN, w \in BOOLEAN : Call(o, acq, w)
    \/ \E n \in 1..MaxLen : DecRead(n)
    \/ \E k \in -1..MaxLen, w \in Whence : DecSeek(k, w)
    \/ DecClose
    \/ \E w \in BOOLEAN : DecReturn(w)
    \/ DecRaise
    \/ \E h \in CopyOutcomes, c \in 0..MaxLen : Copy(h, c)

Spec == Init /\ [][Next]_vars

----------------------------------------------------------------------------
(* Properties *)

Materialized == numpy_array # None /\ source_fh_contextmanager = None
Deferred == numpy_array = None /\ source_fh_contextmanager # None
BothSet == numpy_array # None /\ source_fh_contextmanager # None
EitherSet == numpy_array # None \/ source_fh_contextmanager # None

(* C1: _numpy_array and _source_fh_contextmanager are never both set, and  *)
(* once either is set exactly one of them is set, whether the operations   *)
(* return or raise.                                                        *)
C1_MutualExclusion ==
    [][~BothSet' /\ (EitherSet => (EitherSet' /\ ~BothSet'))]_vars

(* C2: when the expected checksum differs from the digest of the tile's    *)
(* source, a validate() whose load succeeded ends with a checksum error,   *)
(* whatever operations came before it.                                     *)
C2_MismatchRaises ==
    ( /\ pc = "idle"
      /\ op = "validate"
      /\ result \in {"ok", "ChecksumMismatchError"}
      /\ Materialized
      /\ attached # None
      /\ Present(sha256)
      /\ sha256 # Some(HexDigest(Val(attached))) )
    => result = "ChecksumMismatchError"

(* C3: when the expected checksum is the digest of the tile's source, a    *)
(* validate() whose load succeeded returns normally, whatever calls the    *)
(* decoder made on the wrapped stream; stated here for the decoders that   *)
(* consumed the whole stream.                                              *)
C3_MatchPasses ==
    [][( /\ pc = "reading"
         /\ pc' = "idle"
         /\ op = "validate"
         /\ result' # "DecodeError"
         /\ hw = Len(Val(source_fh_contextmanager))
         /\ sha256 = Some(HexDigest(Val(source_fh_contextmanager))) )
       => result' = "ok"]_vars

(* C4: copy on a Materialized tile raises UnsupportedOperationError,       *)
(* writes nothing to dst_fh and changes no field of the tile.              *)
C4_CopyExclusive ==
    [][(pc = "idle" /\ Materialized /\ op' = "copy")
       => ( /\ result' = "UnsupportedOperationError"
            /\ dst' = None
            /\ UNCHANGED tile )]_vars

(* C4 witness: a copy was refused on a tile that a load had materialized.  *)
C4_Witness ==
    /\ op = "copy"
    /\ result = "UnsupportedOperationError"
    /\ Materialized
    /\ actual_sha256 # None

(* C5: assigning an array whose shape differs from a tile_shape that is    *)
(* already set raises ShapeMismatchError and changes no field of the tile. *)
C5_ShapeChecked ==
    [][\A a \in Arrays :
          (tile_shape # None /\ Val(tile_shape) # a.shape /\ Assign(a))
          => (result' = "ShapeMismatchError" /\ UNCHANGED tile)]_vars

(* C5 witness: an assignment was refused on a tile that still holds its    *)
(* pending source.                                                         *)
C5_Witness ==
    /\ op = "numpy_array.setter"
    /\ result = "ShapeMismatchError"
    /\ Deferred
    /\ tile_shape # None

(* C6: a validate() whose load succeeded raises a checksum error if and    *)
(* only if the expected and the actual checksum are both present (neither  *)
(* None nor empty) and differ; no other operation raises one.              *)
C6_ValidateIff ==
    /\ result = "ChecksumMismatchError"
       => ( /\ op = "validate"
            /\ Present(sha256)
            /\ Present(actual_sha256)
            /\ sha256 # actual_sha256 )
    /\ (pc = "idle" /\ op = "validate" /\ result = "ok")
       => (~Present(sha256) \/ ~Present(actual_sha256) \/ sha256 = actual_sha256)

(* C6 witness: validate() passed silently on a tile that has an expected   *)
(* checksum and no actual one.                                             *)
C6_Witness ==
    /\ pc = "idle"
    /\ op = "validate"
    /\ result = "ok"
    /\ Materialized
    /\ Present(sha256)
    /\ actual_sha256 = None

(* C7: a seek to a non-zero offset invalidates hashing for the rest of the *)
(* read session, and when such a session ends the tile's _actual_sha256 is *)
(* unset.                                                                  *)
C7_SeekInvalidates ==
    [][ /\ \A k \in 1..MaxLen, w \in Whence : DecSeek(k, w) => hasher' = None
        /\ (pc = "reading" /\ hasher = None)
           => ( /\ pc' = "reading" => hasher' = None
                /\ pc' = "idle" => actual_sha256' = None ) ]_vars

(* C8 as claimed: a Materialized tile stays Materialized under every       *)
(* operation.                                                              *)
C8_NeverBackToDeferred ==
    [][Materialized => Materialized']_vars

(* C8: a Materialized tile stays Materialized under every operation other  *)
(* than set_source_fh_contextmanager, which clears the array and makes the *)
(* tile Deferred again.                                                    *)
C8_MaterializedUntilReattached ==
    [][Materialized
       => IF op' = "set_source_fh_contextmanager"
          THEN Deferred'
          ELSE Materialized']_vars

(* C8 witness: write() ran on a tile materialized without a read session   *)
(* and left it Materialized.                                               *)
C8_Witness ==
    /\ op = "write"
    /\ result = "ok"
    /\ dst # None
    /\ Materialized
    /\ actual_sha256 = None

(* C9: a tile constructed with a tile_shape is never left Materialized with *)
(* an array of another shape by an operation that returned normally,       *)
(* however it was materialized.                                            *)
C9_DeclaredShapeEnforced ==
    (pc = "idle" /\ result = "ok" /\ Materialized /\ declared_shape # None)
    => Val(numpy_array).shape = Val(declared_shape)

(* C10: _actual_sha256 is set only by a read session that read the whole   *)
(* stream without a seek to a non-zero offset and ended by a normal        *)
(* return of the decoder.                                                  *)
C10_DigestProvenance ==
    [][actual_sha256' # actual_sha256
       => ( /\ pc = "reading"
            /\ result' # "DecodeError"
            /\ hasher # None
            /\ hw = Len(Val(source_fh_contextmanager)) )]_vars

(* C11: on a Materialized tile the numpy_array getter, write and validate  *)
(* change no field of the tile, do not enter the source's context manager  *)
(* and do not call the decoder.                                            *)
C11_LoadIdempotent ==
    [][(pc = "idle" /\ Materialized /\ op' \in LoadCallers)
       => ( /\ UNCHANGED tile
            /\ UNCHANGED backend
            /\ pc' = "idle"
            /\ result' \in {"ok", "ChecksumMismatchError", "IOError"}
            /\ result' = "IOError" => (op' = "write" /\ dst' = None) )]_vars

(* C11 witness: the getter ran on a tile whose array was assigned.         *)
C11_Witness ==
    /\ pc = "idle"
    /\ op = "numpy_array"
    /\ result = "ok"
    /\ Materialized
    /\ attached = None

(* C12: once an operation has returned or raised, no buffer of the source  *)
(* is open; inside reader_func no buffer is open other than the one the    *)
(* context manager keeps in its handle and closes on exit (the decoder may *)
(* have closed it already).                                                *)
C12_ScopedRelease ==
    /\ pc = "idle" => open = {}
    /\ pc = "reading" => (handle # None /\ open \subseteq {Val(handle)})

(* C12 witness: a load whose decoder raised has ended.                     *)
C12_Witness ==
    /\ pc = "idle"
    /\ result = "DecodeError"
    /\ op \in LoadCallers
    /\ enters > 0
    /\ open = {}

(* C13: a _load that succeeds sets _numpy_array to what the decoder        *)
(* returned, clears the source, sets tile_format to NUMPY and tile_shape   *)
(* to the shape of the array.                                              *)
C13_LoadPostcondition ==
    [][(pc = "reading" /\ pc' = "idle" /\ result' # "DecodeError")
       => ( /\ numpy_array'
               = Some(Decode(SubSeq(Val(source_fh_contextmanager), 1, hw)))
            /\ source_fh_contextmanager' = None
            /\ tile_format' = NUMPY
            /\ tile_shape' = Some(Val(numpy_array').shape) )]_vars

(* C13 witness: a write() loaded the whole source of a tile declared with  *)
(* another shape.                                                          *)
C13_Witness ==
    /\ pc = "idle"
    /\ op = "write"
    /\ result = "ok"
    /\ Materialized
    /\ enters = 1
    /\ actual_sha256 # None
    /\ attached # None
    /\ Val(numpy_array).pixels = Val(attached)
    /\ declared_shape # None
    /\ tile_shape # declared_shape

(* C14: a copy that succeeds on a Deferred tile enters the source once,    *)
(* writes the source's bytes to dst_fh, sets _numpy_array to an array      *)
(* decoded from those bytes, clears the source and sets tile_format to     *)
(* NUMPY.                                                                  *)
C14_CopyPostcondition ==
    [][(pc = "idle" /\ Deferred /\ op' = "copy" /\ result' = "ok")
       => ( /\ dst' = source_fh_contextmanager
            /\ numpy_array' # None
            /\ \E c \in 0..Len(Val(source_fh_contextmanager)) :
                  numpy_array'
                  = Some(Decode(SubSeq(Val(source_fh_contextmanager), 1, c)))
            /\ source_fh_contextmanager' = None
            /\ tile_format' = NUMPY
            /\ enters' = enters + 1 )]_vars

(* C14 witness: a copy has succeeded and wrote the source's bytes.         *)
C14_Witness ==
    /\ op = "copy"
    /\ result = "ok"
    /\ Materialized
    /\ dst # None
    /\ dst = attached

(* C15 as claimed: an attached source is entered at most once.             *)
C15_EnteredAtMostOnce ==
    enters <= 1

(* C15: an attached source is entered at most once per call and only while *)
(* the tile is Deferred.  A call that returns normally leaves no source    *)
(* attached; once the decoder has returned, in _load or in copy, the tile  *)
(* has its array, and a tile that is not Deferred does not become Deferred *)
(* again before a source is attached anew: the source is not entered again *)
(* after its decoder returned, also when write's or copy's dst_fh raised   *)
(* afterwards.  When entering the source raises or the decoder raises, the *)
(* source stays attached and the tile Deferred, and a later call can enter *)
(* the source again.                                                       *)
C15_NotEnteredAfterSuccess ==
    [][ /\ (enters' # enters /\ op' # "set_source_fh_contextmanager")
           => (Deferred /\ enters' = enters + 1)
        /\ (pc' = "idle" /\ result' = "ok" /\ op' \in LoadCallers \cup {"copy"})
           => source_fh_contextmanager' = None
        /\ ( \/ (pc = "reading" /\ pc' = "idle" /\ result' # "DecodeError")
             \/ (pc = "idle" /\ op' = "copy" /\ enters' # enters
                 /\ result' # "DecodeError") )
           => numpy_array' # None
        /\ (~Deferred /\ op' # "set_source_fh_contextmanager") => ~Deferred'
        /\ ( \/ (pc = "reading" /\ pc' = "idle" /\ result' = "DecodeError")
             \/ (pc = "idle" /\ Deferred /\ op' \in LoadCallers \cup {"copy"}
                 /\ pc' = "idle"
                 /\ \/ result' = "DecodeError"
                    \/ result' = "IOError" /\ enters' = enters) )
           => (Deferred' /\ UNCHANGED source_fh_contextmanager)
        /\ (pc = "idle" /\ Deferred /\ enters < MaxEnters)
           => ENABLED (Call("numpy_array", TRUE, TRUE) /\ enters' = enters + 1)
      ]_vars

(* C15 witness: a source entered a second time, after a failure, was       *)
(* loaded.                                                                 *)
C15_Witness ==
    /\ pc = "idle"
    /\ result = "ok"
    /\ op \in LoadCallers
    /\ Materialized
    /\ attached # None
    /\ enters = 2

(* C16: when the source cannot be acquired or the decoder raises during    *)
(* _load, the call ends with that error, writes nothing, and leaves        *)
(* _numpy_array unset and the source, tile_format and tile_shape as they   *)
(* were.                                                                   *)
C16_FailedLoadKeepsDeferred ==
    [][( \/ (pc = "reading" /\ pc' = "idle" /\ result' = "DecodeError")
         \/ (pc = "idle" /\ Deferred /\ op' \in LoadCallers /\ result' = "IOError") )
       => ( /\ numpy_array' = None
            /\ source_fh_contextmanager' # None
            /\ UNCHANGED <<numpy_array, source_fh_contextmanager, tile_format,
                           tile_shape>>
            /\ dst' = None )]_vars

(* C16 witness: a write() whose decoder raised.                            *)
C16_Witness ==
    /\ pc = "idle"
    /\ op = "write"
    /\ result = "DecodeError"
    /\ Deferred
    /\ dst = None

(* C17: on a Materialized tile, _actual_sha256, when set, is the digest of *)
(* the bytes the current array was decoded from.                           *)
C17_ChecksumFresh ==
    (pc = "idle" /\ Materialized /\ actual_sha256 # None)
    => actual_sha256 = Some(HexDigest(Val(numpy_array).pixels))

(* C18: on a Materialized tile, tile_format is NUMPY and tile_shape is the *)
(* shape of the array.                                                     *)
C18_MaterializedMetadata ==
    (pc = "idle" /\ Materialized)
    => ( /\ tile_format = NUMPY
         /\ tile_shape = Some(Val(numpy_array).shape) )

(* C19: no operation changes coordinates, indices, extras or the expected  *)
(* checksum.                                                               *)
C19_MetadataFrame ==
    [][UNCHANGED <<coordinates, indices, extras, sha256>>]_vars

(* C19 witness: a validate() has failed on the checksum of a loaded tile.  *)
C19_Witness ==
    /\ pc = "idle"
    /\ op = "validate"
    /\ result = "ChecksumMismatchError"
    /\ Materialized
    /\ sha256 # None

====
